---- MODULE Spec2Model ----
(***************************************************************************)
(* Calculator: the basic accumulator (script.js) and the expression        *)
(* version with the shunting-yard converter and the RPN evaluator.         *)
(*                                                                         *)
(* JavaScript strings are sequences of one-character strings, so that      *)
(* parseFloat, the isNumberToken pattern, slice and length act on the      *)
(* characters.  JavaScript numbers are records [k, n, d, t]:               *)
(*   k = "num"    the rational n/d in lowest terms, d > 0, within Lim      *)
(*   k = "nan", "inf", "ninf"   NaN, Infinity, -Infinity                   *)
(*   k = "undef"  undefined (what Array.prototype.pop gives on [])         *)
(*   k = "null"   null                                                     *)
(*   k = "sym"    a finite double with no exact representation here (an    *)
(*                irrational function value, a constant, a value beyond    *)
(*                Lim), named by the term t                                *)
(*   k = "unk"    a value this model does not determine (arithmetic on a   *)
(*                sym value)                                               *)
(***************************************************************************)
EXTENDS Integers, Sequences, FiniteSets, TLC

VARIABLES state, calc_history, basic, steps, tokens, rpn, val, formatted, pc

vars == <<state, calc_history, basic, steps, tokens, rpn, val, formatted, pc>>

(***************************************************************************)
(* Bounds                                                                  *)
(***************************************************************************)
\* largest numerator and denominator kept exactly
Lim == 10000
\* longest token sequence given to the converter
MaxLen == 4
\* the digit keys pressed
Digits == {"0", "5"}
\* most clicks and key presses followed from the initial state
MaxSteps == 3
\* the same, for the basic version
MaxBasicSteps == 5
\* history entries that are clicked: the MaxRecall most recent
MaxRecall == 2
\* clicks and key presses of a session that starts with a stored history
MaxHistorySteps == 2

(***************************************************************************)
(* Numbers                                                                 *)
(***************************************************************************)
Abs(x) == IF x < 0 THEN -x ELSE x

RECURSIVE GCD(_, _)
GCD(a, b) == IF b = 0 THEN a ELSE GCD(b, a % b)

NaN == [k |-> "nan", n |-> 0, d |-> 1, t |-> <<>>]
Infinity == [k |-> "inf", n |-> 0, d |-> 1, t |-> <<>>]
NegInfinity == [k |-> "ninf", n |-> 0, d |-> 1, t |-> <<>>]
undefined == [k |-> "undef", n |-> 0, d |-> 1, t |-> <<>>]
null == [k |-> "null", n |-> 0, d |-> 1, t |-> <<>>]
Unknown == [k |-> "unk", n |-> 0, d |-> 1, t |-> <<>>]
Sym(term) == [k |-> "sym", n |-> 0, d |-> 1, t |-> term]

\* the rational a/b (b # 0) in lowest terms; beyond Lim it is kept as a term
Num(a, b) ==
    LET g == GCD(Abs(a), Abs(b))
        s == IF b < 0 THEN -1 ELSE 1
        nn == s * (a \div g)
        dd == s * (b \div g)
    IN  IF Abs(nn) > Lim \/ dd > Lim
        THEN [k |-> "sym", n |-> nn, d |-> dd, t |-> <<"q">>]
        ELSE [k |-> "num", n |-> nn, d |-> dd, t |-> <<>>]

Whole(i) == Num(i, 1)

\* the name of a num inside a term
Enc(x) == <<ToString(x.n), "/", ToString(x.d)>>

\* ToNumber: undefined becomes NaN, null becomes 0
ToNumber(x) == IF x.k = "undef" THEN NaN ELSE IF x.k = "null" THEN Whole(0) ELSE x

IsNum(x) == x.k = "num"
IsZero(x) == x.k = "num" /\ x.n = 0
IsInfinite(x) == x.k \in {"inf", "ninf"}
\* the sign of a num or an infinity
Sign(x) == IF x.k = "inf" THEN 1 ELSE IF x.k = "ninf" THEN -1
           ELSE IF x.n > 0 THEN 1 ELSE IF x.n < 0 THEN -1 ELSE 0
SignedInf(s) == IF s < 0 THEN NegInfinity ELSE Infinity

\* isFinite(x) and isNaN(x) of JavaScript, on ToNumber(x)
isFinite(x) == ToNumber(x).k \in {"num", "sym"}
isNaN(x) == ToNumber(x).k = "nan"
\* the model determines the value
Known(x) == x.k # "unk"

JsNeg(x0) ==
    LET x == ToNumber(x0)
    IN  CASE x.k = "num" -> Num(-x.n, x.d)
          [] x.k = "inf" -> NegInfinity
          [] x.k = "ninf" -> Infinity
          [] x.k = "nan" -> NaN
          [] OTHER -> Unknown

JsAdd(a0, b0) ==
    LET a == ToNumber(a0)
        b == ToNumber(b0)
    IN  CASE a.k = "nan" \/ b.k = "nan" -> NaN
          [] IsInfinite(a) /\ IsInfinite(b) -> IF a.k = b.k THEN a ELSE NaN
          [] IsInfinite(a) /\ b.k \in {"num", "sym"} -> a
          [] IsInfinite(b) /\ a.k \in {"num", "sym"} -> b
          [] a.k = "num" /\ b.k = "num" -> Num(a.n * b.d + b.n * a.d, a.d * b.d)
          [] a.k = "sym" /\ IsZero(b) -> a
          [] b.k = "sym" /\ IsZero(a) -> b
          [] OTHER -> Unknown

JsSub(a0, b0) == JsAdd(a0, JsNeg(b0))

JsMul(a0, b0) ==
    LET a == ToNumber(a0)
        b == ToNumber(b0)
    IN  CASE a.k = "nan" \/ b.k = "nan" -> NaN
          [] IsInfinite(a) /\ IsZero(b) -> NaN
          [] IsZero(a) /\ IsInfinite(b) -> NaN
          [] (IsInfinite(a) \/ IsNum(a)) /\ (IsInfinite(b) \/ IsNum(b))
             /\ (IsInfinite(a) \/ IsInfinite(b)) -> SignedInf(Sign(a) * Sign(b))
          [] a.k = "num" /\ b.k = "num" -> Num(a.n * b.n, a.d * b.d)
          [] (a.k = "sym" /\ IsZero(b)) \/ (b.k = "sym" /\ IsZero(a)) -> Whole(0)
          [] a.k = "num" /\ b.k = "sym" /\ b.t[1] = "lit" -> Sym(<<"mul">> \o Enc(a) \o b.t)
          [] OTHER -> Unknown

JsDiv(a0, b0) ==
    LET a == ToNumber(a0)
        b == ToNumber(b0)
    IN  CASE a.k = "nan" \/ b.k = "nan" -> NaN
          [] IsInfinite(a) /\ IsInfinite(b) -> NaN
          [] IsZero(a) /\ IsZero(b) -> NaN
          [] IsInfinite(a) /\ IsNum(b) -> SignedInf(Sign(a) * (IF Sign(b) < 0 THEN -1 ELSE 1))
          [] IsInfinite(b) /\ a.k \in {"num", "sym"} -> Whole(0)
          [] IsNum(a) /\ IsZero(b) -> SignedInf(Sign(a))
          [] a.k = "num" /\ b.k = "num" -> Num(a.n * b.d, a.d * b.n)
          [] a.k = "sym" /\ IsNum(b) /\ b.n = 1 /\ b.d = 1 -> a
          [] a.k = "sym" /\ a.t[1] = "mul" /\ IsNum(b) -> Sym(<<"div">> \o a.t \o Enc(b))
          [] IsZero(a) /\ b.k = "sym" -> Whole(0)
          [] OTHER -> Unknown

\* a < 0 and a === 0 of JavaScript (false on NaN and on undefined)
LessThanZero(a0) == LET a == ToNumber(a0) IN a.k = "ninf" \/ (a.k = "num" /\ a.n < 0)
StrictEqualsZero(a) == a.k = "num" /\ a.n = 0

\* the integer square root of a perfect square, -1 otherwise
RECURSIVE ISqrtFrom(_, _)
ISqrtFrom(x, r) == IF r * r = x THEN r ELSE IF r * r > x THEN -1 ELSE ISqrtFrom(x, r + 1)
ISqrt(x) == ISqrtFrom(x, 0)

\* Math.sqrt
MathSqrt(a0) ==
    LET a == ToNumber(a0)
    IN  CASE a.k = "nan" \/ a.k = "ninf" -> NaN
          [] a.k = "inf" -> Infinity
          [] a.k = "num" /\ a.n < 0 -> NaN
          [] a.k = "num" /\ ISqrt(a.n) >= 0 /\ ISqrt(a.d) >= 0 -> Num(ISqrt(a.n), ISqrt(a.d))
          [] a.k = "num" -> Sym(<<"sqrt">> \o Enc(a))
          [] OTHER -> Unknown

\* b^e for integers b, e >= 0, saturating just above Lim
RECURSIVE PowSat(_, _, _)
PowSat(b, e, acc) ==
    IF e = 0 \/ Abs(acc) > Lim THEN acc ELSE PowSat(b, e - 1, acc * b)

\* the number of decimal digits of a natural number
RECURSIVE NumDigits(_)
NumDigits(x) == IF x < 10 THEN 1 ELSE 1 + NumDigits(x \div 10)

\* (n/d)^e for an integer e >= 1 and n # 0
PowPos(n, d, e) ==
    LET pn == IF Abs(n) = 1 THEN (IF n < 0 /\ e % 2 = 1 THEN -1 ELSE 1) ELSE PowSat(n, e, 1)
        pd == IF d = 1 THEN 1 ELSE PowSat(d, e, 1)
    IN  IF Abs(pn) <= Lim /\ pd <= Lim THEN Num(pn, pd)
        ELSE IF e * NumDigits(Abs(n)) <= 300 /\ e * NumDigits(d) <= 300
             THEN Sym(<<"pow", ToString(n), "/", ToString(d), ToString(e)>>)
             ELSE Unknown

\* Math.pow
MathPow(a0, b0) ==
    LET a == ToNumber(a0)
        b == ToNumber(b0)
        bInt == b.k = "num" /\ b.d = 1
        bOdd == bInt /\ b.n % 2 = 1
        \* |a| compared with 1, for a num: -1, 0, 1
        mag == IF Abs(a.n) > a.d THEN 1 ELSE IF Abs(a.n) < a.d THEN -1 ELSE 0
    IN  CASE b.k = "nan" -> NaN
          [] IsZero(b) -> Whole(1)
          [] a.k = "nan" -> NaN
          [] b.k \in {"unk", "sym"} \/ a.k \in {"unk", "sym"} -> Unknown
          [] IsInfinite(b) /\ IsInfinite(a) -> IF b.k = "inf" THEN Infinity ELSE Whole(0)
          [] IsInfinite(b) -> IF mag = 0 THEN NaN
                              ELSE IF (mag = 1) = (b.k = "inf") THEN Infinity ELSE Whole(0)
          [] a.k = "inf" -> IF b.n > 0 THEN Infinity ELSE Whole(0)
          [] a.k = "ninf" -> IF b.n < 0 THEN Whole(0) ELSE IF bOdd THEN NegInfinity ELSE Infinity
          [] IsZero(a) -> IF b.n > 0 THEN Whole(0) ELSE Infinity
          [] a.n < 0 /\ ~bInt -> NaN
          [] bInt /\ b.n > 0 -> PowPos(a.n, a.d, b.n)
          [] bInt /\ b.n < 0 -> IF a.n > 0 THEN PowPos(a.d, a.n, -b.n)
                                ELSE PowPos(-a.d, -a.n, -b.n)
          [] a.n = a.d -> Whole(1)
          [] b.n = 1 /\ b.d = 2 /\ ISqrt(a.n) >= 0 /\ ISqrt(a.d) >= 0 -> Num(ISqrt(a.n), ISqrt(a.d))
          [] OTHER -> Sym(<<"pow">> \o Enc(a) \o Enc(b))


\* Math.PI and Math.E, named by their decimal strings
MathPI == Sym(<<"lit", "3", ".", "1", "4", "1", "5", "9", "2", "6", "5", "3", "5", "8", "9", "7", "9", "3">>)
MathE == Sym(<<"lit", "2", ".", "7", "1", "8", "2", "8", "1", "8", "2", "8", "4", "5", "9", "0", "4", "5">>)

\* the argument of a function, named inside a term
EncArg(a) == IF a.k = "num" \/ a.t[1] = "q" THEN Enc(a) ELSE a.t

\* Math.sin, Math.cos, Math.tan: exact at 0, a finite irrational elsewhere
MathSin(a0) ==
    LET a == ToNumber(a0)
    IN  CASE a.k = "nan" \/ IsInfinite(a) -> NaN
          [] IsZero(a) -> Whole(0)
          [] a.k = "unk" -> Unknown
          [] OTHER -> Sym(<<"sin">> \o EncArg(a))

MathCos(a0) ==
    LET a == ToNumber(a0)
    IN  CASE a.k = "nan" \/ IsInfinite(a) -> NaN
          [] IsZero(a) -> Whole(1)
          [] a.k = "unk" -> Unknown
          [] OTHER -> Sym(<<"cos">> \o EncArg(a))

MathTan(a0) ==
    LET a == ToNumber(a0)
    IN  CASE a.k = "nan" \/ IsInfinite(a) -> NaN
          [] IsZero(a) -> Whole(0)
          [] a.k = "unk" -> Unknown
          [] OTHER -> Sym(<<"tan">> \o EncArg(a))

\* Math.log: -Infinity at 0, NaN below 0, 0 at 1
MathLog(a0) ==
    LET a == ToNumber(a0)
    IN  CASE a.k = "nan" \/ a.k = "ninf" -> NaN
          [] a.k = "inf" -> Infinity
          [] IsZero(a) -> NegInfinity
          [] a.k = "num" /\ a.n < 0 -> NaN
          [] a.k = "num" /\ a.n = a.d -> Whole(0)
          [] a.k = "num" -> Sym(<<"ln">> \o Enc(a))
          [] OTHER -> Unknown

\* the exponent e with 10^e = x for a power of ten x >= 1, -1 otherwise
RECURSIVE Log10Of(_)
Log10Of(x) ==
    IF x = 1 THEN 0
    ELSE IF x % 10 # 0 THEN -1
    ELSE LET r == Log10Of(x \div 10) IN IF r < 0 THEN -1 ELSE r + 1

\* Math.log10: exact at the powers of ten
MathLog10(a0) ==
    LET a == ToNumber(a0)
    IN  CASE a.k = "nan" \/ a.k = "ninf" -> NaN
          [] a.k = "inf" -> Infinity
          [] IsZero(a) -> NegInfinity
          [] a.k = "num" /\ a.n < 0 -> NaN
          [] a.k = "num" /\ a.d = 1 /\ Log10Of(a.n) >= 0 -> Whole(Log10Of(a.n))
          [] a.k = "num" /\ a.n = 1 /\ Log10Of(a.d) >= 0 -> Whole(-Log10Of(a.d))
          [] a.k = "num" -> Sym(<<"log">> \o Enc(a))
          [] OTHER -> Unknown

(***************************************************************************)
(* Strings                                                                 *)
(***************************************************************************)
DigitChars == <<"0", "1", "2", "3", "4", "5", "6", "7", "8", "9">>
IsDigit(c) == \E i \in 1..10 : DigitChars[i] = c
DigitVal(c) == (CHOOSE i \in 1..10 : DigitChars[i] = c) - 1
DigitChar(i) == DigitChars[i + 1]

Error == <<"E", "r", "r", "o", "r">>
InfinityStr == <<"I", "n", "f", "i", "n", "i", "t", "y">>
NaNStr == <<"N", "a", "N">>

\* s.slice(i - 1): the characters of s from position i on
From(s, i) == SubSeq(s, i, Len(s))
StartsWith(s, p) == Len(s) >= Len(p) /\ SubSeq(s, 1, Len(p)) = p

\* the length of the longest prefix of s made of digits
RECURSIVE DigitPrefixLen(_)
DigitPrefixLen(s) ==
    IF s = <<>> \/ ~IsDigit(Head(s)) THEN 0 ELSE 1 + DigitPrefixLen(Tail(s))

\* s without its leading "0" characters
RECURSIVE StripLeadingZeros(_)
StripLeadingZeros(s) ==
    IF s # <<>> /\ Head(s) = "0" THEN StripLeadingZeros(Tail(s)) ELSE s

\* s without its trailing "0" characters
RECURSIVE StripTrailingZeros(_)
StripTrailingZeros(s) ==
    IF s # <<>> /\ s[Len(s)] = "0" THEN StripTrailingZeros(SubSeq(s, 1, Len(s) - 1)) ELSE s

\* the natural number written by at most 8 digit characters
RECURSIVE NatOfDigits(_)
NatOfDigits(s) ==
    IF s = <<>> THEN 0 ELSE NatOfDigits(SubSeq(s, 1, Len(s) - 1)) * 10 + DigitVal(s[Len(s)])

\* the digit characters of a natural number
RECURSIVE DigitsOfNat(_)
DigitsOfNat(x) ==
    IF x < 10 THEN <<DigitChar(x)>> ELSE Append(DigitsOfNat(x \div 10), DigitChar(x % 10))

RECURSIVE Pow10(_)
Pow10(e) == IF e = 0 THEN 1 ELSE 10 * Pow10(e - 1)

\* the string of a value whose digits this model does not compute: "#", the
\* value's name; parseFloat gives the value back (String and parseFloat
\* round-trip every double)
OpaqueStr(v) ==
    IF v.k = "num" \/ v.t = <<"q">>
    THEN <<"#", IF v.n < 0 THEN "-q" ELSE "q">> \o DigitsOfNat(Abs(v.n)) \o <<"/">> \o DigitsOfNat(v.d)
    ELSE <<"#">> \o v.t

ParseOpaque(s) ==
    LET r == From(s, 3)
        ln == DigitPrefixLen(r)
        r2 == From(r, ln + 2)
    IN  IF Len(s) >= 2 /\ s[2] \in {"q", "-q"} /\ ln \in 1..9 /\ Len(r) > ln + 1 /\ r[ln + 1] = "/"
           /\ DigitPrefixLen(r2) = Len(r2) /\ Len(r2) \in 1..9
        THEN Num((IF s[2] = "-q" THEN -1 ELSE 1) * NatOfDigits(SubSeq(r, 1, ln)), NatOfDigits(r2))
        ELSE Sym(From(s, 2))

\* parseFloat: the longest prefix of s that is a decimal literal
parseFloat(s) ==
    LET neg == s # <<>> /\ Head(s) = "-"
        body == IF s # <<>> /\ Head(s) \in {"-", "+"} THEN Tail(s) ELSE s
        il == DigitPrefixLen(body)
        afterInt == From(body, il + 1)
        hasDot == afterInt # <<>> /\ Head(afterInt) = "."
        fl == IF hasDot THEN DigitPrefixLen(Tail(afterInt)) ELSE 0
        afterFrac == IF hasDot THEN From(afterInt, fl + 2) ELSE afterInt
        expBody == IF afterFrac # <<>> /\ Head(afterFrac) \in {"e", "E"}
                   THEN (IF Len(afterFrac) >= 2 /\ afterFrac[2] \in {"-", "+"}
                         THEN From(afterFrac, 3) ELSE Tail(afterFrac))
                   ELSE <<>>
        el == DigitPrefixLen(expBody)
        ip == StripLeadingZeros(SubSeq(body, 1, il))
        fp == IF hasDot THEN StripTrailingZeros(SubSeq(afterInt, 2, fl + 1)) ELSE <<>>
        used == SubSeq(s, 1, Len(s) - Len(afterFrac))
        sg == IF neg THEN -1 ELSE 1
    IN  CASE s # <<>> /\ Head(s) = "#" -> ParseOpaque(s)
          [] s # <<>> /\ Head(s) = "?" -> Unknown
          [] StartsWith(body, InfinityStr) -> SignedInf(sg)
          [] il = 0 /\ fl = 0 -> NaN
          [] el > 0 /\ el <= 8 /\ NatOfDigits(SubSeq(expBody, 1, el)) # 0
             /\ Len(afterFrac) >= 2 /\ afterFrac[2] = "-"
             /\ Len(ip) + Len(fp) <= 8 /\ Len(fp) + NatOfDigits(SubSeq(expBody, 1, el)) <= 9 ->
                Num(sg * NatOfDigits(ip \o fp), Pow10(Len(fp) + NatOfDigits(SubSeq(expBody, 1, el))))
          [] el > 0 /\ NatOfDigits(StripLeadingZeros(SubSeq(expBody, 1, IF el > 8 THEN 8 ELSE el))) # 0 ->
                Sym(<<"lit">> \o SubSeq(s, 1, Len(s) - Len(expBody) + el))
          [] Len(ip) + Len(fp) > 8 -> Sym(<<"lit">> \o used)
          [] OTHER -> Num(sg * NatOfDigits(ip \o fp), Pow10(Len(fp)))

\* /^-?\d+(?:\.\d+)?$/.test(t)
isNumberToken(t) ==
    LET body == IF t # <<>> /\ Head(t) = "-" THEN Tail(t) ELSE t
        il == DigitPrefixLen(body)
        rest == From(body, il + 1)
    IN  \/ t # <<>> /\ Head(t) = "#" /\ Len(t) >= 2 /\ t[2] \in {"q", "-q", "sqrt", "sin", "cos", "tan", "ln", "log", "mul", "div"}
        \/ /\ il >= 1
           /\ \/ rest = <<>>
              \/ /\ Head(rest) = "."
                 /\ Len(rest) >= 2
                 /\ DigitPrefixLen(Tail(rest)) = Len(rest) - 1

\* const MAX_DISPLAY_LENGTH = 16
MAX_DISPLAY_LENGTH == 16

\* the digit string ds plus one
RECURSIVE IncDigits(_)
IncDigits(ds) ==
    IF ds = <<>> THEN <<"1">>
    ELSE IF ds[Len(ds)] = "9" THEN Append(IncDigits(SubSeq(ds, 1, Len(ds) - 1)), "0")
    ELSE Append(SubSeq(ds, 1, Len(ds) - 1), DigitChar(DigitVal(ds[Len(ds)]) + 1))

\* k fractional digits of r/d (r < d) and the remainder left after them
RECURSIVE LongDiv(_, _, _)
LongDiv(r, d, k) ==
    IF k = 0 THEN [ds |-> <<>>, rem |-> r]
    ELSE LET rest == LongDiv((r * 10) % d, d, k - 1)
         IN  [ds |-> <<DigitChar((r * 10) \div d)>> \o rest.ds, rem |-> rest.rem]

RECURSIVE Zeros(_)
Zeros(k) == IF k <= 0 THEN <<>> ELSE <<"0">> \o Zeros(k - 1)

RECURSIVE AllZeros(_)
AllZeros(s) == s = <<>> \/ (Head(s) = "0" /\ AllZeros(Tail(s)))

\* the decimal expansion of a num, of a rational beyond Lim or of a decimal
\* literal: sign, integer digits, 13 fractional digits, and whether any
\* digit after the 13th is not zero
Expansion(v) ==
    IF v.t = <<>> \/ v.t = <<"q">>
    THEN LET ld == LongDiv(Abs(v.n) % v.d, v.d, 13)
         IN  [neg |-> v.n < 0, ip |-> DigitsOfNat(Abs(v.n) \div v.d), fp |-> ld.ds, rest |-> ld.rem # 0]
    ELSE LET lit == Tail(v.t)
             neg == Head(lit) = "-"
             body == IF neg THEN Tail(lit) ELSE lit
             il == DigitPrefixLen(body)
             ip0 == StripLeadingZeros(SubSeq(body, 1, il))
             fr == IF il < Len(body) THEN From(body, il + 2) ELSE <<>>
         IN  [neg |-> neg, ip |-> IF ip0 = <<>> THEN <<"0">> ELSE ip0,
              fp |-> SubSeq(fr \o Zeros(13), 1, 13),
              rest |-> Len(fr) > 13 /\ ~AllZeros(From(fr, 14))]

\* a decimal literal without exponent
IsPlainLit(v) ==
    /\ v.k = "sym" /\ v.t # <<>> /\ v.t[1] = "lit"
    /\ \A i \in 2..Len(v.t) : IsDigit(v.t[i]) \/ v.t[i] = "." \/ (i = 2 /\ v.t[i] = "-")

\* Number.prototype.toExponential(10) of the value with integer digits ip
\* (not zero) and fractional digits fp
toExponential10(neg, ip, fp) ==
    LET sig == ip \o fp \o Zeros(12)
        m0 == SubSeq(sig, 1, 11)
        m1 == IF DigitVal(sig[12]) >= 5 THEN IncDigits(m0) ELSE m0
        ex == IF Len(m1) = 12 THEN Len(ip) ELSE Len(ip) - 1
    IN  (IF neg THEN <<"-">> ELSE <<>>) \o <<m1[1], ".">> \o SubSeq(m1, 2, 11)
        \o <<"e", "+">> \o DigitsOfNat(ex)

\* Number::toString writes a value below 1e-6 that is not zero with an
\* exponent: the plain decimal "0.000000ddd" is written "d.dde-7"
ExponentForm(str) ==
    LET neg == str # <<>> /\ Head(str) = "-"
        body == IF neg THEN Tail(str) ELSE str
        frac == From(body, 3)
        sig == StripLeadingZeros(frac)
        z == Len(frac) - Len(sig)
    IN  IF Len(body) >= 3 /\ body[1] = "0" /\ body[2] = "." /\ z >= 6 /\ sig # <<>>
        THEN (IF neg THEN <<"-">> ELSE <<>>) \o <<Head(sig)>>
             \o (IF Len(sig) > 1 THEN <<".">> \o Tail(sig) ELSE <<>>)
             \o <<"e", "-">> \o DigitsOfNat(z + 1)
        ELSE str

\* Math.round(n * 1e12) / 1e12, then String, then toExponential(10) when
\* the string is longer than MAX_DISPLAY_LENGTH
FormatDecimal(x) ==
    LET d13 == DigitVal(x.fp[13])
        up == IF x.neg THEN d13 > 5 \/ (d13 = 5 /\ x.rest) ELSE d13 >= 5
        all0 == x.ip \o SubSeq(x.fp, 1, 12)
        all1 == IF up THEN IncDigits(all0) ELSE all0
        ip == SubSeq(all1, 1, Len(all1) - 12)
        fp12 == From(all1, Len(all1) - 11)
        fp == StripTrailingZeros(fp12)
        zero == AllZeros(all1)
        str == ExponentForm((IF x.neg /\ ~zero THEN <<"-">> ELSE <<>>) \o ip
                            \o (IF fp = <<>> THEN <<>> ELSE <<".">> \o fp))
    IN  IF Len(str) > MAX_DISPLAY_LENGTH THEN toExponential10(x.neg, ip, fp12) ELSE str

formatNumber(n0) ==
    LET n == ToNumber(n0)
    IN  CASE n.k = "unk" -> <<"?">>
          [] ~isFinite(n) -> Error
          [] n.k = "num" \/ n.t = <<"q">> \/ IsPlainLit(n) -> FormatDecimal(Expansion(n))
          [] OTHER -> <<"#", "r12">> \o n.t

\* String(n): the digits of a rational that terminates within 12 places are
\* the rounded ones; other finite values keep an opaque string
String(n0) ==
    LET n == ToNumber(n0)
        x == Expansion(n)
    IN  CASE n.k = "unk" -> <<"?">>
          [] n.k = "nan" -> NaNStr
          [] n.k = "inf" -> InfinityStr
          [] n.k = "ninf" -> <<"-">> \o InfinityStr
          [] IsPlainLit(n) -> ExponentForm(Tail(n.t))
          [] (n.k = "num" \/ n.t = <<"q">>) /\ x.fp[13] = "0" /\ ~x.rest
             /\ Len(x.ip) + Len(StripTrailingZeros(x.fp)) <= 15 ->
                FormatDecimal(x)
          [] OTHER -> OpaqueStr(n)

(***************************************************************************)
(* Expression evaluator (shunting-yard + RPN)                              *)
(***************************************************************************)
Plus == <<"+">>
Minus == <<"-">>
Times == <<"*">>
Divide == <<"/">>
Caret == <<"^">>
OpenParen == <<"(">>
CloseParen == <<")">>
pi == <<"p", "i">>
e == <<"e">>
sin == <<"s", "i", "n">>
cos == <<"c", "o", "s">>
tan == <<"t", "a", "n">>
ln == <<"l", "n">>
log == <<"l", "o", "g">>
sqrt == <<"s", "q", "r", "t">>
neg == <<"n", "e", "g">>
square == <<"s", "q", "u", "a", "r", "e">>
reciprocal == <<"r", "e", "c", "i", "p", "r", "o", "c", "a", "l">>

\* the keys of OPERATORS
OperatorKeys == {Plus, Minus, Times, Divide, Caret}

\* OPERATORS with '^' left-associative
OPERATORS_PowerLeft(t) ==
    CASE t = Plus -> [prec |-> 2, assoc |-> "L"]
      [] t = Minus -> [prec |-> 2, assoc |-> "L"]
      [] t = Times -> [prec |-> 3, assoc |-> "L"]
      [] t = Divide -> [prec |-> 3, assoc |-> "L"]
      [] t = Caret -> [prec |-> 4, assoc |-> "L"]

OPERATORS(t) ==
    CASE t = Plus -> [prec |-> 2, assoc |-> "L"]
      [] t = Minus -> [prec |-> 2, assoc |-> "L"]
      [] t = Times -> [prec |-> 3, assoc |-> "L"]
      [] t = Divide -> [prec |-> 3, assoc |-> "L"]
      [] t = Caret -> [prec |-> 4, assoc |-> "R"]

\* OPERATORS[t].fn(a, b)
OperatorFn(t, a, b) ==
    CASE t = Plus -> JsAdd(a, b)
      [] t = Minus -> JsSub(a, b)
      [] t = Times -> JsMul(a, b)
      [] t = Divide -> JsDiv(a, b)
      [] t = Caret -> MathPow(a, b)

\* the while loop of the operator branch with < in place of <= for a
\* left-associative t
RECURSIVE PopOperators_Strict(_, _, _)
PopOperators_Strict(t, output, ops) ==
    IF ops = <<>> THEN [output |-> output, ops |-> ops]
    ELSE LET o2 == ops[Len(ops)]
         IN  IF o2 \in OperatorKeys /\ OPERATORS(t).prec < OPERATORS(o2).prec
             THEN PopOperators_Strict(t, Append(output, o2), SubSeq(ops, 1, Len(ops) - 1))
             ELSE [output |-> output, ops |-> ops]

\* the while loop of the operator branch: pops to the output the stacked
\* operators that t does not bind tighter than
RECURSIVE PopOperators(_, _, _)
PopOperators(t, output, ops) ==
    IF ops = <<>> THEN [output |-> output, ops |-> ops]
    ELSE LET o2 == ops[Len(ops)]
         IN  IF /\ o2 \in OperatorKeys
                /\ \/ OPERATORS(t).assoc = "L" /\ OPERATORS(t).prec <= OPERATORS(o2).prec
                   \/ OPERATORS(t).assoc = "R" /\ OPERATORS(t).prec < OPERATORS(o2).prec
             THEN PopOperators(t, Append(output, o2), SubSeq(ops, 1, Len(ops) - 1))
             ELSE [output |-> output, ops |-> ops]

\* the ")" branch without its while loop: nothing is popped to the output
PopToParen_None(output, ops) == [output |-> output, ops |-> ops]

\* the while loop of the ")" branch: pops to the output down to a "("
RECURSIVE PopToParen(_, _)
PopToParen(output, ops) ==
    IF ops # <<>> /\ ops[Len(ops)] # OpenParen
    THEN PopToParen(Append(output, ops[Len(ops)]), SubSeq(ops, 1, Len(ops) - 1))
    ELSE [output |-> output, ops |-> ops]

\* the sequence s reversed
RECURSIVE Reverse(_)
Reverse(s) == IF s = <<>> THEN <<>> ELSE Append(Reverse(Tail(s)), Head(s))

\* the for loop of toRPN from token i on, then the final flush of ops
RECURSIVE toRPNFrom(_, _, _, _)
toRPNFrom(tk, i, output, ops) ==
    IF i > Len(tk) THEN output \o Reverse(ops)
    ELSE LET t == tk[i]
         IN  IF isNumberToken(t) \/ t = pi \/ t = e
             THEN toRPNFrom(tk, i + 1, Append(output, t), ops)
             ELSE IF t \in OperatorKeys
             THEN LET p == PopOperators(t, output, ops)
                  IN  toRPNFrom(tk, i + 1, p.output, Append(p.ops, t))
             ELSE IF t = OpenParen
             THEN toRPNFrom(tk, i + 1, output, Append(ops, t))
             ELSE IF t = CloseParen
             THEN LET p == PopToParen(output, ops)
                  IN  toRPNFrom(tk, i + 1, p.output,
                                IF p.ops = <<>> THEN <<>> ELSE SubSeq(p.ops, 1, Len(p.ops) - 1))
             ELSE toRPNFrom(tk, i + 1, output, Append(ops, t))

toRPN(tk) == toRPNFrom(tk, 1, <<>>, <<>>)

\* stack.pop(): the value, undefined on an empty stack
Top(stack) == IF stack = <<>> THEN undefined ELSE stack[Len(stack)]
Pop(stack) == IF stack = <<>> THEN <<>> ELSE SubSeq(stack, 1, Len(stack) - 1)

\* a * Math.PI / 180
Radians(a) == JsDiv(JsMul(a, MathPI), Whole(180))

\* the switch of the function branch with a default that passes the operand on
ApplyFunction_PassThrough(t, a) ==
    CASE t = sin -> IF state.degMode THEN MathSin(Radians(a)) ELSE MathSin(a)
      [] t = cos -> IF state.degMode THEN MathCos(Radians(a)) ELSE MathCos(a)
      [] t = tan -> IF state.degMode THEN MathTan(Radians(a)) ELSE MathTan(a)
      [] t = ln -> MathLog(a)
      [] t = log -> MathLog10(a)
      [] t = sqrt -> IF LessThanZero(a) THEN NaN ELSE MathSqrt(a)
      [] t = neg -> JsNeg(a)
      [] t = square -> JsMul(a, a)
      [] t = reciprocal -> IF StrictEqualsZero(a) THEN Infinity ELSE JsDiv(Whole(1), a)
      [] OTHER -> a

\* the switch of the function branch of evalRPN
ApplyFunction(t, a) ==
    CASE t = sin -> IF state.degMode THEN MathSin(Radians(a)) ELSE MathSin(a)
      [] t = cos -> IF state.degMode THEN MathCos(Radians(a)) ELSE MathCos(a)
      [] t = tan -> IF state.degMode THEN MathTan(Radians(a)) ELSE MathTan(a)
      [] t = ln -> MathLog(a)
      [] t = log -> MathLog10(a)
      [] t = sqrt -> IF LessThanZero(a) THEN NaN ELSE MathSqrt(a)
      [] t = neg -> JsNeg(a)
      [] t = square -> JsMul(a, a)
      [] t = reciprocal -> IF StrictEqualsZero(a) THEN Infinity ELSE JsDiv(Whole(1), a)
      [] OTHER -> NaN

\* the for loop of evalRPN from token i on, then the final stack.pop()
RECURSIVE evalRPNFrom(_, _, _)
evalRPNFrom(r, i, stack) ==
    IF i > Len(r) THEN Top(stack)
    ELSE LET t == r[i]
         IN  IF isNumberToken(t) THEN evalRPNFrom(r, i + 1, Append(stack, parseFloat(t)))
             ELSE IF t = pi THEN evalRPNFrom(r, i + 1, Append(stack, MathPI))
             ELSE IF t = e THEN evalRPNFrom(r, i + 1, Append(stack, MathE))
             ELSE IF t \in OperatorKeys
             THEN LET b == Top(stack)
                      a == Top(Pop(stack))
                  IN  evalRPNFrom(r, i + 1, Append(Pop(Pop(stack)), OperatorFn(t, a, b)))
             ELSE evalRPNFrom(r, i + 1, Append(Pop(stack), ApplyFunction(t, Top(stack))))

evalRPN(r) == evalRPNFrom(r, 1, <<>>)

\* neither toRPN nor evalRPN throws, so the catch branch is never taken
evaluateExpression(tk) == evalRPN(toRPN(tk))

(***************************************************************************)
(* The expression version: state, handlers                                 *)
(***************************************************************************)
\* a && a.length, the truthiness of a string
Truthy(str) == str # <<>>
\* str.includes('.'); the opaque string of a value that is no integer has one
IncludesDot(str) ==
    \/ \E i \in 1..Len(str) : str[i] = "."
    \/ Len(str) >= 2 /\ str[1] = "#" /\ str[2] # "pow"

\* resetCalculator that also empties the memory register
resetCalculator_ClearsMemory(s) ==
    [s EXCEPT !.displayValue = <<"0">>, !.firstOperand = null, !.operator = "null",
              !.waitingForSecondOperand = FALSE, !.memory = Whole(0)]

\* function resetCalculator() of the expression version
resetCalculator(s) ==
    [s EXCEPT !.displayValue = <<"0">>, !.firstOperand = null, !.operator = "null",
              !.waitingForSecondOperand = FALSE]

inputDigit(s, digit) ==
    LET ct == IF s.currentToken = <<"0">> THEN <<digit>> ELSE Append(s.currentToken, digit)
    IN  [s EXCEPT !.currentToken = ct, !.displayValue = ct]

inputDecimal(s) ==
    LET ct == IF ~Truthy(s.currentToken) THEN <<"0", ".">>
              ELSE IF ~IncludesDot(s.currentToken) THEN Append(s.currentToken, ".")
              ELSE s.currentToken
    IN  [s EXCEPT !.currentToken = ct, !.displayValue = ct]

\* backspace that deletes the whole current token
backspace_WholeToken(s) ==
    IF Truthy(s.currentToken)
    THEN [s EXCEPT !.currentToken = <<>>, !.displayValue = <<"0">>]
    ELSE IF Len(s.exprTokens) > 0
    THEN [s EXCEPT !.exprTokens = SubSeq(s.exprTokens, 1, Len(s.exprTokens) - 1),
                   !.displayValue = <<"0">>]
    ELSE s

backspace(s) ==
    IF Truthy(s.currentToken)
    THEN LET ct == SubSeq(s.currentToken, 1, Len(s.currentToken) - 1)
         IN  [s EXCEPT !.currentToken = ct, !.displayValue = IF Truthy(ct) THEN ct ELSE <<"0">>]
    ELSE IF Len(s.exprTokens) > 0
    THEN [s EXCEPT !.exprTokens = SubSeq(s.exprTokens, 1, Len(s.exprTokens) - 1),
                   !.displayValue = <<"0">>]
    ELSE s

inputPercent(s) ==
    LET target == IF Truthy(s.currentToken) THEN s.currentToken ELSE s.displayValue
        value == parseFloat(target)
        result == JsDiv(value, Whole(100))
    IN  IF isNaN(value) THEN s
        ELSE [s EXCEPT !.currentToken = IF Truthy(s.currentToken) THEN String(result) ELSE @,
                       !.displayValue = formatNumber(result)]

\* clearEntry that drops the expression as well
clearEntry_All(s) ==
    [s EXCEPT !.currentToken = <<>>, !.displayValue = <<"0">>, !.exprTokens = <<>>]

clearEntry(s) == [s EXCEPT !.currentToken = <<>>, !.displayValue = <<"0">>]

\* the token pushed for an operator action
OperatorSymbol(nextOperator) ==
    CASE nextOperator = "add" -> Plus
      [] nextOperator = "subtract" -> Minus
      [] nextOperator = "multiply" -> Times
      [] nextOperator = "divide" -> Divide

\* if (state.currentToken) { exprTokens.push(currentToken); currentToken = '' }
PushCurrentToken(s) ==
    IF Truthy(s.currentToken)
    THEN [s EXCEPT !.exprTokens = Append(@, s.currentToken), !.currentToken = <<>>]
    ELSE s

\* PushCurrentToken, then exprTokens.push(tok)
PushToken(s, tok) ==
    LET s1 == PushCurrentToken(s) IN [s1 EXCEPT !.exprTokens = Append(@, tok)]

handleOperator(s, nextOperator) == PushToken(s, OperatorSymbol(nextOperator))

\* state.exprTokens.join(' ')
RECURSIVE Join(_)
Join(tk) ==
    IF tk = <<>> THEN <<>>
    ELSE IF Len(tk) = 1 THEN tk[1]
    ELSE tk[1] \o <<" ">> \o Join(Tail(tk))

\* h.expr.split(' ')
RECURSIVE SplitFrom(_, _)
SplitFrom(str, cur) ==
    IF str = <<>> THEN <<cur>>
    ELSE IF Head(str) = " " THEN <<cur>> \o SplitFrom(Tail(str), <<>>)
    ELSE SplitFrom(Tail(str), Append(cur, Head(str)))
Split(str) == SplitFrom(str, <<>>)

\* hist.slice(0, 50)
HISTORY_LIMIT == 50
\* slice that drops nothing
Slice_All(hist, k) == hist

Slice(hist, k) == SubSeq(hist, 1, IF Len(hist) < k THEN Len(hist) ELSE k)

\* isFinite(val) ? formatNumber(val) : 'Error'
FormatResult(v) == IF isFinite(v) \/ ~Known(v) THEN formatNumber(v) ELSE Error

\* the value equals evaluates and the string it shows
EqualsValue(s) == evaluateExpression(PushCurrentToken(s).exprTokens)
EqualsFormatted(s) == FormatResult(EqualsValue(s))

\* function equals() leaving the expression in place when the result is Error
equals_KeepOnError(s) ==
    LET s1 == PushCurrentToken(s)
    IN  IF Len(s1.exprTokens) = 0 THEN s1
        ELSE IF EqualsFormatted(s) = Error THEN [s1 EXCEPT !.displayValue = Error]
        ELSE [s1 EXCEPT !.displayValue = EqualsFormatted(s), !.exprTokens = <<>>,
                        !.firstOperand = null, !.operator = "null",
                        !.waitingForSecondOperand = FALSE]

\* function equals(): the state part
equals(s) ==
    LET s1 == PushCurrentToken(s)
    IN  IF Len(s1.exprTokens) = 0 THEN s1
        ELSE [s1 EXCEPT !.displayValue = EqualsFormatted(s), !.exprTokens = <<>>,
                        !.firstOperand = null, !.operator = "null",
                        !.waitingForSecondOperand = FALSE]

\* function equals(): the history part, when localStorage works
equalsHistory(s, hist) ==
    LET s1 == PushCurrentToken(s)
    IN  IF Len(s1.exprTokens) = 0 THEN hist
        ELSE Slice(<<[expr |-> Join(s1.exprTokens), result |-> EqualsFormatted(s)]>> \o hist,
                   HISTORY_LIMIT)

unaryOps(op, x) ==
    CASE op = "negate" -> JsNeg(x)
      [] op = "sqrt" -> IF LessThanZero(x) THEN NaN ELSE MathSqrt(x)
      [] op = "square" -> JsMul(x, x)
      [] op = "reciprocal" -> IF StrictEqualsZero(x) THEN Infinity ELSE JsDiv(Whole(1), x)

UnaryResult(s, op) ==
    unaryOps(op, parseFloat(IF Truthy(s.currentToken) THEN s.currentToken ELSE s.displayValue))

applyUnary(s, op) ==
    LET target == IF Truthy(s.currentToken) THEN s.currentToken ELSE s.displayValue
        value == parseFloat(target)
        result == unaryOps(op, value)
        fmt == formatNumber(result)
        s1 == [s EXCEPT !.currentToken = IF Truthy(s.currentToken) THEN String(result) ELSE @,
                        !.displayValue = fmt]
    IN  IF isNaN(value) THEN s
        ELSE IF fmt = Error THEN [resetCalculator(s1) EXCEPT !.displayValue = Error]
        ELSE s1

setConstant(s, constant) ==
    LET value == IF constant = "pi" THEN MathPI ELSE MathE
    IN  [s EXCEPT !.currentToken = String(value), !.displayValue = formatNumber(value),
                  !.waitingForSecondOperand = FALSE]

memoryClear(s) == [s EXCEPT !.memory = Whole(0)]
memoryRecall(s) ==
    [s EXCEPT !.displayValue = formatNumber(s.memory), !.waitingForSecondOperand = FALSE]
memoryPlus(s) ==
    LET v == parseFloat(s.displayValue)
    IN  IF ~isNaN(v) THEN [s EXCEPT !.memory = JsAdd(@, v)] ELSE s
memoryMinus(s) ==
    LET v == parseFloat(s.displayValue)
    IN  IF ~isNaN(v) THEN [s EXCEPT !.memory = JsSub(@, v)] ELSE s

(***************************************************************************)
(* The expression version: the click and keydown handlers                  *)
(***************************************************************************)
InitState ==
    [displayValue |-> <<"0">>, firstOperand |-> null, operator |-> "null",
     waitingForSecondOperand |-> FALSE, memory |-> Whole(0), exprTokens |-> <<>>,
     currentToken |-> <<>>, degMode |-> FALSE]

InitBasic ==
    [displayValue |-> <<"0">>, firstOperand |-> null, operator |-> "null",
     waitingForSecondOperand |-> FALSE, memory |-> Whole(0)]

\* the variables of the converter and evaluator runs, not used by the handlers
IdleRun == tokens = <<>> /\ rpn = <<>> /\ val = undefined /\ formatted = <<>> /\ pc = "idle"

Init == state = InitState /\ calc_history = <<>> /\ basic = InitBasic /\ steps = 0 /\ IdleRun

\* one more click or key press
Step == steps < MaxSteps /\ steps' = steps + 1

Others == UNCHANGED <<basic, tokens, rpn, val, formatted, pc>>

\* click on a number button
ClickNumber ==
    \E digit \in Digits :
        /\ Step
        /\ state' = IF Len(state.displayValue) >= MAX_DISPLAY_LENGTH
                       /\ ~state.waitingForSecondOperand
                    THEN state ELSE inputDigit(state, digit)
        /\ UNCHANGED calc_history /\ Others

\* keydown of a digit key
KeyDigit ==
    \E digit \in Digits :
        /\ Step
        /\ state' = inputDigit(state, digit)
        /\ UNCHANGED calc_history /\ Others

Decimal ==
    /\ Step
    /\ state' = inputDecimal(state)
    /\ UNCHANGED calc_history /\ Others

\* click on C, keydown of Escape
Clear == Step /\ state' = resetCalculator(state) /\ UNCHANGED calc_history /\ Others

ClearEntry == Step /\ state' = clearEntry(state) /\ UNCHANGED calc_history /\ Others

Backspace == Step /\ state' = backspace(state) /\ UNCHANGED calc_history /\ Others

Percent ==
    /\ Step
    /\ Known(JsDiv(parseFloat(IF Truthy(state.currentToken) THEN state.currentToken
                              ELSE state.displayValue), Whole(100)))
    /\ state' = inputPercent(state)
    /\ UNCHANGED calc_history /\ Others

ParenOpen ==
    /\ Step
    /\ state' = [state EXCEPT !.exprTokens = Append(@, OpenParen)]
    /\ UNCHANGED calc_history /\ Others

ParenClose ==
    /\ Step
    /\ state' = PushToken(state, CloseParen)
    /\ UNCHANGED calc_history /\ Others

Power ==
    /\ Step
    /\ state' = PushToken(state, Caret)
    /\ UNCHANGED calc_history /\ Others

Operator ==
    \E nextOperator \in {"add", "subtract", "multiply", "divide"} :
        /\ Step
        /\ state' = handleOperator(state, nextOperator)
        /\ UNCHANGED calc_history /\ Others

\* click on =, keydown of Enter or =; localStorage may throw
Equals ==
    \E storageWorks \in BOOLEAN :
        /\ Known(EqualsValue(state))
        /\ Step
        /\ state' = equals(state)
        /\ calc_history' = IF storageWorks THEN equalsHistory(state, calc_history)
                           ELSE calc_history
        /\ Others

Unary ==
    \E op \in {"negate", "sqrt", "square", "reciprocal"} :
        /\ Step
        /\ Known(UnaryResult(state, op))
        /\ state' = applyUnary(state, op)
        /\ UNCHANGED calc_history /\ Others

Function ==
    \E action \in {sin, cos, tan, ln, log} :
        /\ Step
        /\ state' = PushToken(state, action)
        /\ UNCHANGED calc_history /\ Others

DegToggle ==
    /\ Step
    /\ state' = [state EXCEPT !.degMode = ~@]
    /\ UNCHANGED calc_history /\ Others

Constant ==
    \E constant \in {"pi", "e"} :
        /\ Step
        /\ state' = setConstant(state, constant)
        /\ UNCHANGED calc_history /\ Others

MemClear == Step /\ state' = memoryClear(state) /\ UNCHANGED calc_history /\ Others

MemRecall == Step /\ state' = memoryRecall(state) /\ UNCHANGED calc_history /\ Others

MemPlus ==
    /\ Step
    /\ Known(memoryPlus(state).memory)
    /\ state' = memoryPlus(state)
    /\ UNCHANGED calc_history /\ Others

MemMinus ==
    /\ Step
    /\ Known(memoryMinus(state).memory)
    /\ state' = memoryMinus(state)
    /\ UNCHANGED calc_history /\ Others

\* click on an entry of the history panel
HistoryRecall ==
    \E i \in 1..(IF Len(calc_history) < MaxRecall THEN Len(calc_history) ELSE MaxRecall) :
        /\ Step
        /\ state' = [state EXCEPT !.exprTokens = Split(calc_history[i].expr),
                                  !.currentToken = <<>>,
                                  !.displayValue = calc_history[i].result]
        /\ UNCHANGED calc_history /\ Others

Next ==
    \/ ClickNumber \/ KeyDigit \/ Decimal \/ Clear \/ ClearEntry \/ Backspace \/ Percent
    \/ ParenOpen \/ ParenClose \/ Power \/ Operator \/ Equals \/ Unary \/ Function
    \/ DegToggle \/ Constant \/ MemClear \/ MemRecall \/ MemPlus \/ MemMinus
    \/ HistoryRecall

Spec == Init /\ [][Next]_vars

\* localStorage outlives the page: the log stored by earlier sessions, most
\* recent first; session i evaluated the number i
StoredLog(n) ==
    [i \in 1..n |-> [expr |-> DigitsOfNat(n - i + 1), result |-> DigitsOfNat(n - i + 1)]]

\* a page loaded with a log one short of the limit, or at the limit, with
\* MaxHistorySteps clicks and key presses to come
InitHistory ==
    /\ state = InitState /\ basic = InitBasic /\ IdleRun
    /\ steps = MaxSteps - MaxHistorySteps
    /\ calc_history \in {StoredLog(HISTORY_LIMIT - 1), StoredLog(HISTORY_LIMIT)}

SpecHistory == InitHistory /\ [][Next]_vars

(***************************************************************************)
(* The basic version (script.js): handlers                                 *)
(***************************************************************************)
basic_resetCalculator(s) ==
    [s EXCEPT !.displayValue = <<"0">>, !.firstOperand = null, !.operator = "null",
              !.waitingForSecondOperand = FALSE]

basic_inputDigit(s, digit) ==
    IF s.waitingForSecondOperand
    THEN [s EXCEPT !.displayValue = <<digit>>, !.waitingForSecondOperand = FALSE]
    ELSE [s EXCEPT !.displayValue = IF @ = <<"0">> THEN <<digit>> ELSE Append(@, digit)]

basic_inputDecimal(s) ==
    IF s.waitingForSecondOperand
    THEN [s EXCEPT !.displayValue = <<"0", ".">>, !.waitingForSecondOperand = FALSE]
    ELSE IF ~IncludesDot(s.displayValue)
    THEN [s EXCEPT !.displayValue = Append(@, ".")]
    ELSE s

basic_backspace(s) ==
    IF s.waitingForSecondOperand
    THEN [s EXCEPT !.displayValue = <<"0">>, !.waitingForSecondOperand = FALSE]
    ELSE IF Len(s.displayValue) > 1
    THEN [s EXCEPT !.displayValue = SubSeq(@, 1, Len(@) - 1)]
    ELSE [s EXCEPT !.displayValue = <<"0">>]

basic_inputPercent(s) ==
    LET value == parseFloat(s.displayValue)
    IN  IF isNaN(value) THEN s
        ELSE [s EXCEPT !.displayValue = formatNumber(JsDiv(value, Whole(100)))]

calculate(first, second, operator) ==
    CASE operator = "add" -> JsAdd(first, second)
      [] operator = "subtract" -> JsSub(first, second)
      [] operator = "multiply" -> JsMul(first, second)
      [] operator = "divide" -> IF StrictEqualsZero(second) THEN Infinity ELSE JsDiv(first, second)
      [] OTHER -> second

\* the result handleOperator folds to when an operator and a first operand are pending
FoldResult(s) == calculate(s.firstOperand, parseFloat(s.displayValue), s.operator)

\* handleOperator without the change of operator of lines 108-112
basic_handleOperator_AlwaysFold(s, nextOperator) ==
    LET inputValue == parseFloat(s.displayValue)
        fmt == formatNumber(FoldResult(s))
    IN  IF isNaN(inputValue) THEN s
        ELSE IF s.firstOperand = null
        THEN [s EXCEPT !.firstOperand = inputValue, !.waitingForSecondOperand = TRUE,
                       !.operator = nextOperator]
        ELSE IF s.operator # "null"
        THEN IF fmt = Error
             THEN [s EXCEPT !.displayValue = fmt, !.firstOperand = null, !.operator = "null",
                            !.waitingForSecondOperand = FALSE]
             ELSE [s EXCEPT !.displayValue = fmt, !.firstOperand = parseFloat(fmt),
                            !.waitingForSecondOperand = TRUE, !.operator = nextOperator]
        ELSE [s EXCEPT !.waitingForSecondOperand = TRUE, !.operator = nextOperator]

basic_handleOperator(s, nextOperator) ==
    LET inputValue == parseFloat(s.displayValue)
        fmt == formatNumber(FoldResult(s))
    IN  IF isNaN(inputValue) THEN s
        ELSE IF s.operator # "null" /\ s.waitingForSecondOperand
        THEN [s EXCEPT !.operator = nextOperator]
        ELSE IF s.firstOperand = null
        THEN [s EXCEPT !.firstOperand = inputValue, !.waitingForSecondOperand = TRUE,
                       !.operator = nextOperator]
        ELSE IF s.operator # "null"
        THEN IF fmt = Error
             THEN [s EXCEPT !.displayValue = fmt, !.firstOperand = null, !.operator = "null",
                            !.waitingForSecondOperand = FALSE]
             ELSE [s EXCEPT !.displayValue = fmt, !.firstOperand = parseFloat(fmt),
                            !.waitingForSecondOperand = TRUE, !.operator = nextOperator]
        ELSE [s EXCEPT !.waitingForSecondOperand = TRUE, !.operator = nextOperator]

\* equals without firstOperand = null of line 138
basic_equals_KeepFirst(s) ==
    IF s.operator = "null" \/ s.waitingForSecondOperand THEN s
    ELSE [s EXCEPT !.displayValue = formatNumber(FoldResult(s)),
                   !.operator = "null", !.waitingForSecondOperand = FALSE]

basic_equals(s) ==
    IF s.operator = "null" \/ s.waitingForSecondOperand THEN s
    ELSE [s EXCEPT !.displayValue = formatNumber(FoldResult(s)), !.firstOperand = null,
                   !.operator = "null", !.waitingForSecondOperand = FALSE]

basic_applyUnary(s, op) ==
    LET value == parseFloat(s.displayValue)
        fmt == formatNumber(unaryOps(op, value))
    IN  IF isNaN(value) THEN s
        ELSE IF fmt = Error
        THEN [basic_resetCalculator(s) EXCEPT !.displayValue = Error]
        ELSE [s EXCEPT !.displayValue = fmt, !.waitingForSecondOperand = FALSE]

basic_setConstant(s, constant) ==
    [s EXCEPT !.displayValue = formatNumber(IF constant = "pi" THEN MathPI ELSE MathE),
              !.waitingForSecondOperand = FALSE]

basic_memoryClear(s) == [s EXCEPT !.memory = Whole(0)]
basic_memoryRecall(s) ==
    [s EXCEPT !.displayValue = formatNumber(s.memory), !.waitingForSecondOperand = FALSE]
\* memoryPlus without the isNaN test of line 183
basic_memoryPlus_Unguarded(s) ==
    LET v == parseFloat(s.displayValue)
    IN  [s EXCEPT !.memory = JsAdd(@, v)]

basic_memoryPlus(s) ==
    LET v == parseFloat(s.displayValue)
    IN  IF ~isNaN(v) THEN [s EXCEPT !.memory = JsAdd(@, v)] ELSE s
basic_memoryMinus(s) ==
    LET v == parseFloat(s.displayValue)
    IN  IF ~isNaN(v) THEN [s EXCEPT !.memory = JsSub(@, v)] ELSE s

(***************************************************************************)
(* The basic version: the click and keydown handlers                       *)
(***************************************************************************)
BasicStep == steps < MaxBasicSteps /\ steps' = steps + 1

BasicOthers == UNCHANGED <<state, calc_history, tokens, rpn, val, formatted, pc>>

BasicClickNumber ==
    \E digit \in Digits :
        /\ BasicStep
        /\ basic' = IF Len(basic.displayValue) >= MAX_DISPLAY_LENGTH
                       /\ ~basic.waitingForSecondOperand
                    THEN basic ELSE basic_inputDigit(basic, digit)
        /\ BasicOthers

BasicKeyDigit ==
    \E digit \in Digits :
        /\ BasicStep
        /\ basic' = basic_inputDigit(basic, digit)
        /\ BasicOthers

BasicDecimal == BasicStep /\ basic' = basic_inputDecimal(basic) /\ BasicOthers

\* click on C, keydown of Escape
BasicClear == BasicStep /\ basic' = basic_resetCalculator(basic) /\ BasicOthers

BasicBackspace == BasicStep /\ basic' = basic_backspace(basic) /\ BasicOthers

BasicPercent ==
    /\ BasicStep
    /\ Known(JsDiv(parseFloat(basic.displayValue), Whole(100)))
    /\ basic' = basic_inputPercent(basic)
    /\ BasicOthers

BasicOperator ==
    \E nextOperator \in {"add", "subtract", "multiply", "divide"} :
        /\ BasicStep
        /\ Known(parseFloat(basic.displayValue)) /\ Known(FoldResult(basic))
        /\ basic' = basic_handleOperator(basic, nextOperator)
        /\ BasicOthers

BasicEquals ==
    /\ BasicStep
    /\ Known(FoldResult(basic))
    /\ basic' = basic_equals(basic)
    /\ BasicOthers

BasicUnary ==
    \E op \in {"negate", "sqrt", "square", "reciprocal"} :
        /\ BasicStep
        /\ Known(unaryOps(op, parseFloat(basic.displayValue)))
        /\ basic' = basic_applyUnary(basic, op)
        /\ BasicOthers

BasicConstant ==
    \E constant \in {"pi", "e"} :
        /\ BasicStep
        /\ basic' = basic_setConstant(basic, constant)
        /\ BasicOthers

BasicMemClear == BasicStep /\ basic' = basic_memoryClear(basic) /\ BasicOthers

BasicMemRecall == BasicStep /\ basic' = basic_memoryRecall(basic) /\ BasicOthers

BasicMemPlus ==
    /\ BasicStep
    /\ Known(basic_memoryPlus(basic).memory)
    /\ basic' = basic_memoryPlus(basic)
    /\ BasicOthers

BasicMemMinus ==
    /\ BasicStep
    /\ Known(basic_memoryMinus(basic).memory)
    /\ basic' = basic_memoryMinus(basic)
    /\ BasicOthers

NextBasic ==
    \/ BasicClickNumber \/ BasicKeyDigit \/ BasicDecimal \/ BasicClear \/ BasicBackspace
    \/ BasicPercent \/ BasicOperator \/ BasicEquals \/ BasicUnary \/ BasicConstant
    \/ BasicMemClear \/ BasicMemRecall \/ BasicMemPlus \/ BasicMemMinus

SpecBasic == Init /\ [][NextBasic]_vars

(***************************************************************************)
(* Runs of the converter and the evaluator on a given token sequence:      *)
(* the three steps equals takes from the tokens to the string shown        *)
(***************************************************************************)
\* the token sequences of length at most n over the set S
RECURSIVE SeqsUpTo(_, _)
SeqsUpTo(S, n) ==
    IF n = 0 THEN {<<>>}
    ELSE LET shorter == SeqsUpTo(S, n - 1)
         IN  shorter \cup {Append(q, t) : q \in {x \in shorter : Len(x) = n - 1}, t \in S}

\* tokens of arbitrary sequences, well formed or not
AnyTokens == {<<"0">>, <<"2">>, Plus, Times, Divide, Caret, OpenParen, CloseParen, log, pi}

\* well-formed infix expressions
InfixNumbers == {<<"0">>, <<"2">>, <<"3">>, <<"4">>, <<"5">>}
InfixOperators == {Plus, Minus, Times, Divide, Caret}
InfixFunctions == {log, sqrt, sin}
InfixBinary == {<<a, o, b>> : a \in InfixNumbers, o \in InfixOperators, b \in InfixNumbers}
InfixInner == {<<a>> : a \in InfixNumbers} \cup InfixBinary
InfixOperands ==
    {<<a>> : a \in InfixNumbers}
    \cup {<<OpenParen>> \o x \o <<CloseParen>> : x \in InfixInner}
    \cup {<<f, OpenParen>> \o x \o <<CloseParen>> : f \in InfixFunctions, x \in InfixInner}
InfixInputs ==
    InfixOperands
    \cup {u \o <<o, a>> : u \in InfixOperands, o \in InfixOperators, a \in InfixNumbers}
    \cup {<<a, o>> \o u : u \in InfixOperands, o \in InfixOperators, a \in InfixNumbers}
    \cup {x \o <<o, c>> : x \in InfixBinary, o \in InfixOperators, c \in InfixNumbers}

StartRun(inputs) ==
    /\ tokens \in inputs
    /\ state \in {[InitState EXCEPT !.degMode = dm] : dm \in BOOLEAN}
    /\ calc_history = <<>> /\ basic = InitBasic /\ steps = 0
    /\ rpn = <<>> /\ val = undefined /\ formatted = <<>> /\ pc = "start"

InitRPN == StartRun(SeqsUpTo(AnyTokens, MaxLen))

InitInfix == StartRun(InfixInputs)

\* const rpn = toRPN(tokens)
Convert ==
    /\ pc = "start"
    /\ rpn' = toRPN(tokens)
    /\ pc' = "converted"
    /\ UNCHANGED <<state, calc_history, basic, steps, tokens, val, formatted>>

\* const val = evalRPN(rpn)
Evaluate ==
    /\ pc = "converted"
    /\ val' = evalRPN(rpn)
    /\ pc' = "evaluated"
    /\ UNCHANGED <<state, calc_history, basic, steps, tokens, rpn, formatted>>

\* const formatted = isFinite(val) ? formatNumber(val) : 'Error'
Format ==
    /\ pc = "evaluated"
    /\ formatted' = FormatResult(val)
    /\ pc' = "shown"
    /\ UNCHANGED <<state, calc_history, basic, steps, tokens, rpn, val>>

NextRun == Convert \/ Evaluate \/ Format

SpecRPN == InitRPN /\ [][NextRun]_vars

SpecInfix == InitInfix /\ [][NextRun]_vars

(***************************************************************************)
(* Reference: the value of an infix expression by the usual grammar        *)
(*   Expr    ::= Term { [+ or -] Term }       left to right                *)
(*   Term    ::= Power { [x or /] Power }     left to right                *)
(*   Power   ::= Primary [ ^ Power ]          right to left                *)
(*   Primary ::= number | pi | e | ( Expr ) | function ( Expr )            *)
(***************************************************************************)
FunctionNames == {sin, cos, tan, ln, log, sqrt, neg, square, reciprocal}

RefFail == [ok |-> FALSE, v |-> NaN, i |-> 0]
RefOk(v, i) == [ok |-> TRUE, v |-> v, i |-> i]

RECURSIVE RefExpr(_, _)
RECURSIVE RefExprRest(_, _, _)
RECURSIVE RefTerm(_, _)
RECURSIVE RefTermRest(_, _, _)
RECURSIVE RefPower(_, _)
RECURSIVE RefPrimary(_, _)

RefPrimary(tk, i) ==
    IF i > Len(tk) THEN RefFail
    ELSE IF isNumberToken(tk[i]) THEN RefOk(parseFloat(tk[i]), i + 1)
    ELSE IF tk[i] = pi THEN RefOk(MathPI, i + 1)
    ELSE IF tk[i] = e THEN RefOk(MathE, i + 1)
    ELSE IF tk[i] = OpenParen
    THEN LET r == RefExpr(tk, i + 1)
         IN  IF r.ok /\ r.i <= Len(tk) /\ tk[r.i] = CloseParen THEN RefOk(r.v, r.i + 1)
             ELSE RefFail
    ELSE IF tk[i] \in FunctionNames /\ i < Len(tk) /\ tk[i + 1] = OpenParen
    THEN LET r == RefPrimary(tk, i + 1)
         IN  IF r.ok THEN RefOk(ApplyFunction(tk[i], r.v), r.i) ELSE RefFail
    ELSE RefFail

RefPower(tk, i) ==
    LET p == RefPrimary(tk, i)
    IN  IF p.ok /\ p.i <= Len(tk) /\ tk[p.i] = Caret
        THEN LET q == RefPower(tk, p.i + 1)
             IN  IF q.ok THEN RefOk(MathPow(p.v, q.v), q.i) ELSE RefFail
        ELSE p

RefTermRest(tk, i, acc) ==
    IF i <= Len(tk) /\ tk[i] \in {Times, Divide}
    THEN LET q == RefPower(tk, i + 1)
         IN  IF q.ok THEN RefTermRest(tk, q.i, OperatorFn(tk[i], acc, q.v)) ELSE RefFail
    ELSE RefOk(acc, i)

RefTerm(tk, i) ==
    LET p == RefPower(tk, i) IN IF p.ok THEN RefTermRest(tk, p.i, p.v) ELSE RefFail

RefExprRest(tk, i, acc) ==
    IF i <= Len(tk) /\ tk[i] \in {Plus, Minus}
    THEN LET q == RefTerm(tk, i + 1)
         IN  IF q.ok THEN RefExprRest(tk, q.i, OperatorFn(tk[i], acc, q.v)) ELSE RefFail
    ELSE RefOk(acc, i)

RefExpr(tk, i) ==
    LET p == RefTerm(tk, i) IN IF p.ok THEN RefExprRest(tk, p.i, p.v) ELSE RefFail

ValidInfix(tk) == RefExpr(tk, 1).ok /\ RefExpr(tk, 1).i = Len(tk) + 1
RefValue(tk) == RefExpr(tk, 1).v

\* the parentheses of a token sequence: how many "(" are open at the end,
\* and whether some ")" came with no "(" open
RECURSIVE ParenScan(_, _, _, _)
ParenScan(tk, i, open, unmatched) ==
    IF i > Len(tk) THEN [open |-> open, unmatched |-> unmatched]
    ELSE IF tk[i] = OpenParen THEN ParenScan(tk, i + 1, open + 1, unmatched)
    ELSE IF tk[i] = CloseParen
    THEN (IF open = 0 THEN ParenScan(tk, i + 1, 0, TRUE)
          ELSE ParenScan(tk, i + 1, open - 1, unmatched))
    ELSE ParenScan(tk, i + 1, open, unmatched)

UnmatchedCloseParen(tk) == ParenScan(tk, 1, 0, FALSE).unmatched
OpenParenLeft(tk) == ParenScan(tk, 1, 0, FALSE).open > 0

\* the numeric stack of a postfix sequence: how many values are left at the
\* end, and whether an operator or a function met too few values
RECURSIVE StackScan(_, _, _, _)
StackScan(r, i, depth, underflow) ==
    IF i > Len(r) THEN [depth |-> depth, underflow |-> underflow]
    ELSE IF isNumberToken(r[i]) \/ r[i] = pi \/ r[i] = e
    THEN StackScan(r, i + 1, depth + 1, underflow)
    ELSE IF r[i] \in OperatorKeys
    THEN StackScan(r, i + 1, (IF depth >= 2 THEN depth - 2 ELSE 0) + 1, underflow \/ depth < 2)
    ELSE StackScan(r, i + 1, (IF depth >= 1 THEN depth - 1 ELSE 0) + 1,
                   underflow \/ (depth < 1 /\ r[i] \in FunctionNames))

StackUnderflow(r) == StackScan(r, 1, 0, FALSE).underflow
ValuesLeft(r) == StackScan(r, 1, 0, FALSE).depth

(***************************************************************************)
(* Claims                                                                  *)
(***************************************************************************)

\* C1: for every valid infix token sequence, toRPN followed by evalRPN gives
\* the value the usual precedence and grouping rules give.
C1_MatchesStandardPrecedence ==
    (pc = "shown" /\ ValidInfix(tokens) /\ Known(val) /\ Known(RefValue(tokens)))
        => val = RefValue(tokens)

\* C2: in f ( E ) op y the function is applied to E only: the value is
\* op(f(value of E), y).
C2_FunctionAppliesToOwnOperand ==
    (/\ pc = "shown"
     /\ Len(tokens) >= 6
     /\ tokens[1] \in InfixFunctions /\ tokens[2] = OpenParen
     /\ tokens[Len(tokens) - 2] = CloseParen
     /\ tokens[Len(tokens) - 1] \in InfixOperators
     /\ isNumberToken(tokens[Len(tokens)])
     /\ ValidInfix(SubSeq(tokens, 3, Len(tokens) - 3))
     /\ Known(val)
     /\ Known(OperatorFn(tokens[Len(tokens) - 1],
                         ApplyFunction(tokens[1], RefValue(SubSeq(tokens, 3, Len(tokens) - 3))),
                         parseFloat(tokens[Len(tokens)]))))
        => val = OperatorFn(tokens[Len(tokens) - 1],
                            ApplyFunction(tokens[1], RefValue(SubSeq(tokens, 3, Len(tokens) - 3))),
                            parseFloat(tokens[Len(tokens)]))

\* C3: when the display shows Error, the next digit starts a fresh entry:
\* the display is exactly that digit and nothing of the failed calculation
\* is pending.
C3_DigitAfterErrorStartsFresh ==
    [][(basic.displayValue = Error /\ (BasicClickNumber \/ BasicKeyDigit))
          => /\ \E digit \in Digits : basic'.displayValue = <<digit>>
             /\ basic'.firstOperand = null /\ basic'.operator = "null"
             /\ ~basic'.waitingForSecondOperand]_vars

\* C4: clear (C, Escape) returns the calculator to its initial state:
\* display 0, nothing pending, no expression tokens, no current token.
C4_ClearResetsEverything ==
    [][Clear => /\ state'.displayValue = <<"0">>
                /\ state'.firstOperand = null /\ state'.operator = "null"
                /\ ~state'.waitingForSecondOperand
                /\ state'.exprTokens = <<>> /\ state'.currentToken = <<>>]_vars

\* C5: a ")" with no "(" open makes the expression an error: Error is shown
\* and no number results.
C5_UnmatchedCloseParenIsError ==
    (pc = "shown" /\ UnmatchedCloseParen(tokens) /\ Known(val))
        => (~isFinite(val) /\ formatted = Error)

\* C6: a "(" still open at the end of the input makes the expression an
\* error: the value is not a number and Error is shown.
C6_OpenParenLeftIsError ==
    /\ (pc \in {"evaluated", "shown"} /\ OpenParenLeft(tokens)) => isNaN(val)
    /\ (pc = "shown" /\ OpenParenLeft(tokens)) => formatted = Error

C6_Witness ==
    /\ pc = "shown" /\ tokens = <<OpenParen, <<"2">>, Plus, <<"2">>>>
    /\ rpn = <<<<"2">>, <<"2">>, Plus, OpenParen>>
    /\ formatted = Error

\* C7: an operator or a function that meets too few values on the numeric
\* stack makes the evaluation an error: Error is shown, never a finite number.
C7_StackUnderflowIsError ==
    (pc = "shown" /\ StackUnderflow(rpn) /\ Known(val))
        => (~isFinite(val) /\ formatted = Error)

\* C8: more than one value left on the numeric stack at the end makes the
\* evaluation an error; only a stack of exactly one value gives a result.
C8_TrailingOperandsAreError ==
    (pc = "shown" /\ ValuesLeft(rpn) > 1 /\ Known(val))
        => (~isFinite(val) /\ formatted = Error)

\* C9: a ^ b ^ c is converted to a b c ^ ^ and evaluates as a^(b^c);
\* 2 ^ 3 ^ 2 gives 512.
C9_PowerIsRightAssociative ==
    /\ (/\ pc \in {"converted", "evaluated", "shown"}
        /\ Len(tokens) = 5
        /\ tokens[2] = Caret /\ tokens[4] = Caret
        /\ \A i \in {1, 3, 5} : isNumberToken(tokens[i]))
          => rpn = <<tokens[1], tokens[3], tokens[5], Caret, Caret>>
    /\ (/\ pc \in {"evaluated", "shown"}
        /\ Len(tokens) = 5
        /\ tokens[2] = Caret /\ tokens[4] = Caret
        /\ \A i \in {1, 3, 5} : isNumberToken(tokens[i]))
          => val = MathPow(parseFloat(tokens[1]),
                           MathPow(parseFloat(tokens[3]), parseFloat(tokens[5])))
    /\ (pc = "shown" /\ tokens = <<<<"2">>, Caret, <<"3">>, Caret, <<"2">>>>)
          => (val = Whole(512) /\ formatted = <<"5", "1", "2">>)

C9_Witness ==
    /\ pc = "shown" /\ tokens = <<<<"2">>, Caret, <<"3">>, Caret, <<"2">>>>
    /\ rpn = <<<<"2">>, <<"3">>, <<"2">>, Caret, Caret>>
    /\ val = Whole(512)

\* C10: in a o1 b o2 c over + - * /, the stacked o1 is popped before o2 is
\* pushed exactly when o2 does not bind tighter than o1, so * and / bind
\* tighter than + and - and equal precedence groups left to right.
C10_LeftAssociativePrecedence ==
    /\ (/\ pc \in {"evaluated", "shown"}
        /\ Len(tokens) = 5
        /\ tokens[2] \in {Plus, Minus, Times, Divide}
        /\ tokens[4] \in {Plus, Minus, Times, Divide}
        /\ \A i \in {1, 3, 5} : isNumberToken(tokens[i]))
          => LET a == parseFloat(tokens[1])
                 b == parseFloat(tokens[3])
                 c == parseFloat(tokens[5])
                 tighter == tokens[2] \in {Plus, Minus} /\ tokens[4] \in {Times, Divide}
             IN  IF tighter
                 THEN /\ rpn = <<tokens[1], tokens[3], tokens[5], tokens[4], tokens[2]>>
                      /\ val = OperatorFn(tokens[2], a, OperatorFn(tokens[4], b, c))
                 ELSE /\ rpn = <<tokens[1], tokens[3], tokens[2], tokens[5], tokens[4]>>
                      /\ val = OperatorFn(tokens[4], OperatorFn(tokens[2], a, b), c)
    /\ (pc = "shown" /\ tokens = <<<<"5">>, Plus, <<"3">>, Times, <<"2">>>>)
          => (val = Whole(11) /\ formatted = <<"1", "1">>)
    /\ (pc = "shown" /\ tokens = <<<<"5">>, Minus, <<"3">>, Minus, <<"2">>>>)
          => val = Whole(0)

C10_Witness ==
    /\ pc = "shown" /\ tokens = <<<<"5">>, Plus, <<"3">>, Times, <<"2">>>>
    /\ rpn = <<<<"5">>, <<"3">>, <<"2">>, Times, Plus>>
    /\ val = Whole(11)

\* the tokens of a sequence that are parentheses
ParenTokens(tk) == {i \in 1..Len(tk) : tk[i] \in {OpenParen, CloseParen}}
Balanced(tk) == ~UnmatchedCloseParen(tk) /\ ~OpenParenLeft(tk)

\* C11: parentheses override precedence.  The postfix of a balanced
\* expression holds no parenthesis; ( a o1 b ) o2 c becomes a b o1 c o2 and
\* a o1 ( b o2 c ) becomes a b c o2 o1 whatever the precedences of o1 and o2,
\* and the values are o2(o1(a, b), c) and o1(a, o2(b, c)); ( 2 + 3 ) * 4
\* gives 20.
C11_ParenthesesOverridePrecedence ==
    /\ (pc # "start" /\ Balanced(tokens)) => ParenTokens(rpn) = {}
    /\ (/\ pc \in {"evaluated", "shown"}
        /\ Len(tokens) = 7
        /\ tokens[1] = OpenParen /\ tokens[5] = CloseParen
        /\ tokens[3] \in InfixOperators /\ tokens[6] \in InfixOperators
        /\ \A i \in {2, 4, 7} : isNumberToken(tokens[i]))
          => /\ rpn = <<tokens[2], tokens[4], tokens[3], tokens[7], tokens[6]>>
             /\ val = OperatorFn(tokens[6],
                                 OperatorFn(tokens[3], parseFloat(tokens[2]),
                                            parseFloat(tokens[4])),
                                 parseFloat(tokens[7]))
    /\ (/\ pc \in {"evaluated", "shown"}
        /\ Len(tokens) = 7
        /\ tokens[3] = OpenParen /\ tokens[7] = CloseParen
        /\ tokens[2] \in InfixOperators /\ tokens[5] \in InfixOperators
        /\ \A i \in {1, 4, 6} : isNumberToken(tokens[i]))
          => /\ rpn = <<tokens[1], tokens[4], tokens[6], tokens[5], tokens[2]>>
             /\ val = OperatorFn(tokens[2], parseFloat(tokens[1]),
                                 OperatorFn(tokens[5], parseFloat(tokens[4]),
                                            parseFloat(tokens[6])))
    /\ (pc = "shown"
        /\ tokens = <<OpenParen, <<"2">>, Plus, <<"3">>, CloseParen, Times, <<"4">>>>)
          => (val = Whole(20) /\ formatted = <<"2", "0">>)

C11_Witness ==
    /\ pc = "shown"
    /\ tokens = <<OpenParen, <<"2">>, Plus, <<"3">>, CloseParen, Times, <<"4">>>>
    /\ rpn = <<<<"2">>, <<"3">>, Plus, <<"4">>, Times>>
    /\ val = Whole(20)

\* the operator or function at position i of a postfix sequence is applied to
\* the value on top of the stack after the tokens before it; it is invalid
\* when that is a division by zero, the square root of a negative number or
\* the reciprocal of zero
InvalidAt(r, i) ==
    LET top == evalRPN(SubSeq(r, 1, i - 1))
    IN  \/ r[i] = Divide /\ StrictEqualsZero(top)
        \/ r[i] = sqrt /\ LessThanZero(top)
        \/ r[i] = reciprocal /\ StrictEqualsZero(top)
InvalidOperation(r) == \E i \in 2..Len(r) : InvalidAt(r, i)

\* C12: an expression whose evaluation divides by zero, takes the square
\* root of a negative number or the reciprocal of zero never shows a number:
\* the display is exactly Error.
C12_InvalidOperationShowsError ==
    (pc = "shown" /\ InvalidOperation(rpn) /\ Known(val))
        => (~isFinite(val) /\ formatted = Error)

\* the basic accumulation path does show Error: folding a pending division
\* by a displayed zero (operator press or equals), the square root of a
\* negative display and the reciprocal of a zero display
BasicInvalidShowsError ==
    LET shown == parseFloat(basic.displayValue)
    IN  /\ (/\ basic.operator = "divide" /\ ~basic.waitingForSecondOperand
            /\ basic.firstOperand # null /\ StrictEqualsZero(shown))
              => /\ basic_equals(basic).displayValue = Error
                 /\ \A op \in {"add", "subtract", "multiply", "divide"} :
                        basic_handleOperator(basic, op).displayValue = Error
        /\ LessThanZero(shown) => basic_applyUnary(basic, "sqrt").displayValue = Error
        /\ StrictEqualsZero(shown)
              => basic_applyUnary(basic, "reciprocal").displayValue = Error

\* a second operand was entered: an operator and a first operand are pending
\* and the display is not waiting for the second operand
SecondOperandEntered(s) ==
    s.operator # "null" /\ s.firstOperand # null /\ ~s.waitingForSecondOperand

\* a rational number, whose digits are determined
Exact(x) == x.k = "num" \/ (x.k = "sym" /\ x.t = <<"q">>)

\* C13: the basic version folds left to right.  An operator pressed after a
\* second operand was entered replaces firstOperand by
\* calculate(firstOperand, displayed value, pending operator), shows it and
\* keeps the new operator pending; equals shows the same fold of what is
\* pending; so a op1 b op2 c = is (a op1 b) op2 c.
C13_BasicFoldsLeftToRight ==
    [][/\ (/\ BasicOperator
           /\ SecondOperandEntered(basic)
           /\ Exact(FoldResult(basic)))
          => /\ basic'.firstOperand = FoldResult(basic)
             /\ basic'.displayValue = formatNumber(FoldResult(basic))
             /\ basic'.operator # "null" /\ basic'.waitingForSecondOperand
       /\ (BasicEquals /\ SecondOperandEntered(basic))
          => basic'.displayValue = formatNumber(FoldResult(basic))]_vars

\* C14: equals consumes the expression.  When equals runs with something
\* entered (expression tokens or a current token), exprTokens and
\* currentToken are empty afterwards, whether a number or Error is shown;
\* the tokens are not changed by conversion and evaluation: the history
\* entry written after the evaluation holds the tokens as they were given.
C14_EqualsConsumesExpression ==
    [][(Equals /\ (state.exprTokens # <<>> \/ state.currentToken # <<>>))
          => /\ state'.exprTokens = <<>> /\ state'.currentToken = <<>>
             /\ state'.displayValue = EqualsFormatted(state)
             /\ calc_history' # calc_history
                  => calc_history'[1].expr
                        = Join(state.exprTokens \o (IF state.currentToken # <<>>
                                                    THEN <<state.currentToken>> ELSE <<>>))]_vars

C14_Witness ==
    /\ Len(calc_history) = 1
    /\ calc_history[1].expr = <<"(", " ", "5">>
    /\ calc_history[1].result = Error
    /\ state.displayValue = Error
    /\ state.exprTokens = <<>> /\ state.currentToken = <<>>

\* the log after an equals that stored its entry: the entry in front, the
\* entries before it one place further, at most HISTORY_LIMIT of them
EntryAdded(before, after, entry) ==
    /\ Len(after) = (IF Len(before) < HISTORY_LIMIT THEN Len(before) + 1 ELSE HISTORY_LIMIT)
    /\ after[1] = entry
    /\ \A i \in 2..Len(after) : after[i] = before[i - 1]

EqualsEntry(s) ==
    [expr |-> Join(s.exprTokens \o (IF s.currentToken # <<>> THEN <<s.currentToken>> ELSE <<>>)),
     result |-> EqualsFormatted(s)]

\* C15 as stated: every equals on a non-empty expression adds exactly one
\* entry (expression string, result string) in front, the entries before
\* keep their order, and the log never holds more than 50 entries.
C15_EveryEqualsAddsEntry ==
    /\ [](Len(calc_history) <= HISTORY_LIMIT)
    /\ [][(Equals /\ (state.exprTokens # <<>> \/ state.currentToken # <<>>))
             => EntryAdded(calc_history, calc_history', EqualsEntry(state))]_vars

\* C15 amended: an equals on a non-empty expression either leaves the log
\* as it is (the access to localStorage failed) or adds exactly one entry in
\* front with the entries before in their order; nothing else changes the
\* log, and it never holds more than 50 entries.
C15_HistoryIsCappedLog ==
    /\ [](Len(calc_history) <= HISTORY_LIMIT)
    /\ [][/\ (Equals /\ (state.exprTokens # <<>> \/ state.currentToken # <<>>))
             => \/ calc_history' = calc_history
                \/ EntryAdded(calc_history, calc_history', EqualsEntry(state))
          /\ ~Equals => calc_history' = calc_history]_vars

C15_Witness ==
    /\ Len(calc_history) = HISTORY_LIMIT
    /\ calc_history[1] = [expr |-> <<"5">>, result |-> <<"5">>]
    /\ calc_history[2] = StoredLog(HISTORY_LIMIT)[1]
    /\ calc_history[HISTORY_LIMIT] = StoredLog(HISTORY_LIMIT)[HISTORY_LIMIT - 1]

\* C16: Clear Entry clears only the current input: currentToken becomes
\* empty and the display 0; the expression tokens already entered, the
\* memory register and the angle mode stay as they are.
C16_ClearEntryClearsOnlyEntry ==
    [][ClearEntry => /\ state'.currentToken = <<>>
                     /\ state'.displayValue = <<"0">>
                     /\ state'.exprTokens = state.exprTokens
                     /\ state'.memory = state.memory
                     /\ state'.degMode = state.degMode]_vars

\* after ( 5 CE: the entry is gone, the open parenthesis is kept
C16_Witness ==
    /\ steps = 3
    /\ state.exprTokens = <<OpenParen>>
    /\ state.currentToken = <<>>
    /\ state.displayValue = <<"0">>

\* C17: Backspace deletes the last digit or, when no number is being
\* entered, the last token: a non-empty currentToken loses exactly its last
\* character and exprTokens stays; with an empty currentToken exprTokens
\* loses exactly its last element; with both empty nothing changes.
C17_BackspaceDeletesDigitOrToken ==
    [][Backspace =>
         IF state.currentToken # <<>>
         THEN /\ state'.currentToken
                    = SubSeq(state.currentToken, 1, Len(state.currentToken) - 1)
              /\ state'.exprTokens = state.exprTokens
         ELSE IF state.exprTokens # <<>>
         THEN /\ state'.exprTokens
                    = SubSeq(state.exprTokens, 1, Len(state.exprTokens) - 1)
              /\ state'.currentToken = <<>>
         ELSE state' = state]_vars

\* after 5 + Backspace: the operator is gone, the number is kept
C17_Witness ==
    /\ steps = 3
    /\ state.exprTokens = <<<<"5">>>>
    /\ state.currentToken = <<>>
    /\ state.displayValue = <<"0">>

\* C18: after Memory Recall the recalled value is the current entry: the
\* operand the next operator press commits, and the operand equals commits,
\* is the recalled memory value.
C18_RecalledValueIsCurrentEntry ==
    [][MemRecall =>
         LET recalled == parseFloat(formatNumber(state.memory))
             committed == PushCurrentToken(state').exprTokens
         IN  /\ state'.displayValue = formatNumber(state.memory)
             /\ Len(committed) = Len(state.exprTokens) + 1
             /\ parseFloat(committed[Len(committed)]) = recalled
             /\ \A op \in {"add", "subtract", "multiply", "divide"} :
                    handleOperator(state', op).exprTokens
                        = Append(committed, OperatorSymbol(op))
             /\ equals(state').displayValue
                    = FormatResult(evaluateExpression(committed))]_vars

\* the expression as entered: the committed tokens, then the pending one
Entered(s) == s.exprTokens \o (IF s.currentToken # <<>> THEN <<s.currentToken>> ELSE <<>>)

\* C19: the expression preserves input order.  Every action that appends a
\* token to exprTokens (operator, power, open parenthesis, close
\* parenthesis, function name) first moves a non-empty currentToken into
\* exprTokens, so that exprTokens is what was entered so far followed by
\* the new token, and nothing is pending.
C19_AppendPreservesInputOrder ==
    [][(ParenOpen \/ ParenClose \/ Power \/ Operator \/ Function)
          => /\ state'.currentToken = <<>>
             /\ Len(state'.exprTokens) = Len(Entered(state)) + 1
             /\ SubSeq(state'.exprTokens, 1, Len(Entered(state))) = Entered(state)
             /\ state'.exprTokens[Len(state'.exprTokens)]
                    \in {Plus, Minus, Times, Divide, Caret, OpenParen, CloseParen,
                         sin, cos, tan, ln, log}]_vars

\* a string that digit, decimal point, backspace, negate and percent inputs
\* can leave in currentToken: digits, a point, a sign, an exponent
EnteredNumber(str) ==
    str # <<>> /\ \A i \in 1..Len(str) : IsDigit(str[i]) \/ str[i] \in {".", "-", "e"}

\* C20: every string moved from currentToken into exprTokens, by an
\* operator, a close parenthesis, power, a function button or equals, is a
\* well-formed decimal number token accepted by isNumberToken.
C20_CommittedTokenIsNumber ==
    [][((ParenClose \/ Power \/ Operator \/ Function \/ Equals)
          /\ EnteredNumber(state.currentToken))
          => isNumberToken(state.currentToken)]_vars

(***************************************************************************)
(* The length of the number being entered                                  *)
(***************************************************************************)
\* a digit, by button or by key, has been entered in the basic version
BasicDigitEntered == \E digit \in Digits : basic' = basic_inputDigit(basic, digit)

\* C21: once the display holds MAX_DISPLAY_LENGTH characters and no second
\* operand is awaited, a digit is refused, whether it comes from a button or
\* from the keyboard: a digit never makes a number of at most 16 characters
\* longer than 16 characters.
C21_DigitEntryKeepsLength ==
    [][BasicDigitEntered /\ Len(basic.displayValue) <= MAX_DISPLAY_LENGTH
          => Len(basic'.displayValue) <= MAX_DISPLAY_LENGTH]_vars

(***************************************************************************)
(* The pending operator of the basic version                               *)
(***************************************************************************)
\* C22: in the basic version an operator pressed while an operator is
\* pending and no second operand has been entered (waitingForSecondOperand
\* is true) only replaces the pending operator: nothing is calculated, and
\* firstOperand, displayValue, waitingForSecondOperand and memory stay.
C22_OperatorReplacesPending ==
    [][\A nextOperator \in {"add", "subtract", "multiply", "divide"} :
          (/\ basic.operator # "null" /\ basic.waitingForSecondOperand
           /\ BasicStep
           /\ basic' = basic_handleOperator(basic, nextOperator))
          => /\ basic'.operator = nextOperator
             /\ basic'.firstOperand = basic.firstOperand
             /\ basic'.displayValue = basic.displayValue
             /\ basic'.waitingForSecondOperand
             /\ basic'.memory = basic.memory]_vars

\* after 5 + *: the operator is multiply, 5 is still the first operand and
\* the display
C22_Witness ==
    /\ steps = 3
    /\ basic.operator = "multiply"
    /\ basic.firstOperand = Whole(5)
    /\ basic.displayValue = <<"5">>
    /\ basic.waitingForSecondOperand

(***************************************************************************)
(* Error in the basic version                                              *)
(***************************************************************************)
\* an operator press in this state calculates: both operands are there
Folds(s) ==
    /\ s.firstOperand # null /\ s.operator # "null"
    /\ ~s.waitingForSecondOperand
    /\ ~isNaN(parseFloat(s.displayValue))

NotNumeric(str) == isNaN(parseFloat(str))

\* C23: in the basic version an operator press that folds to a non-finite
\* result shows Error and abandons the calculation (firstOperand and
\* operator null, waitingForSecondOperand false); and while the display is
\* not numeric, an operator press, percent, a unary operation, M+ and M-
\* leave the state as it is.
C23_ErrorAbandonsCalculation ==
    [][/\ \A nextOperator \in {"add", "subtract", "multiply", "divide"} :
            (/\ Folds(basic) /\ ~isFinite(FoldResult(basic))
             /\ BasicStep
             /\ basic' = basic_handleOperator(basic, nextOperator))
            => /\ basic'.displayValue = Error
               /\ basic'.firstOperand = null /\ basic'.operator = "null"
               /\ ~basic'.waitingForSecondOperand
               /\ basic'.memory = basic.memory
       /\ (/\ NotNumeric(basic.displayValue)
           /\ (BasicOperator \/ BasicPercent \/ BasicUnary \/ BasicMemPlus \/ BasicMemMinus))
          => basic' = basic]_vars

\* after 5 / 0 + and one more operator press: Error is shown, nothing is pending
C23_Witness ==
    /\ steps = 5
    /\ basic.displayValue = Error
    /\ basic.firstOperand = null /\ basic.operator = "null"
    /\ ~basic.waitingForSecondOperand
    /\ basic.memory = Whole(0)

\* C24: in every reachable state of the basic version operator is null
\* exactly when firstOperand is null, and waitingForSecondOperand implies
\* that an operator is pending (operator and firstOperand both non-null).
C24_OperatorIffFirstOperand ==
    /\ (basic.operator = "null") <=> (basic.firstOperand = null)
    /\ basic.waitingForSecondOperand
          => (basic.operator # "null" /\ basic.firstOperand # null)

\* after 5 +: the operator is pending with its first operand, and the
\* second operand is awaited
C24_Witness ==
    /\ steps = 2
    /\ basic.displayValue = <<"5">>
    /\ basic.operator = "add" /\ basic.firstOperand = Whole(5)
    /\ basic.waitingForSecondOperand

(***************************************************************************)
(* The memory register                                                     *)
(***************************************************************************)
\* the record s with another memory register, everything else as it is
SameButMemory(s, t) == t = [s EXCEPT !.memory = t.memory]

\* the displayed value as M+ and M- read it: no change when it is not a number
MemoryAfter(s, sign) ==
    LET v == parseFloat(s.displayValue)
    IN  IF isNaN(v) THEN s.memory
        ELSE IF sign = 1 THEN JsAdd(s.memory, v) ELSE JsSub(s.memory, v)

\* C25: the memory register is changed only by MC (to 0), M+ (the displayed
\* value is added) and M- (the displayed value is subtracted); every other
\* input, and any Error outcome, leaves it as it is, and M+ and M- change
\* nothing but the memory register.
C25_MemoryChangedOnlyByMemoryKeys ==
    [][/\ state'.memory # state.memory
            => /\ SameButMemory(state, state')
               /\ state'.memory \in {Whole(0), MemoryAfter(state, 1), MemoryAfter(state, -1)}
       /\ MemClear => state'.memory = Whole(0)
       /\ MemPlus => state' = [state EXCEPT !.memory = MemoryAfter(state, 1)]
       /\ MemMinus => state' = [state EXCEPT !.memory = MemoryAfter(state, -1)]
       /\ ~(MemClear \/ MemPlus \/ MemMinus) => state'.memory = state.memory]_vars

\* the same for the memory register of the basic version
BasicMemoryChangedOnlyByMemoryKeys ==
    [][/\ basic'.memory # basic.memory
            => /\ SameButMemory(basic, basic')
               /\ basic'.memory \in {Whole(0), MemoryAfter(basic, 1), MemoryAfter(basic, -1)}
       /\ BasicMemClear => basic'.memory = Whole(0)
       /\ BasicMemPlus => basic' = [basic EXCEPT !.memory = MemoryAfter(basic, 1)]
       /\ BasicMemMinus => basic' = [basic EXCEPT !.memory = MemoryAfter(basic, -1)]
       /\ ~(BasicMemClear \/ BasicMemPlus \/ BasicMemMinus)
             => basic'.memory = basic.memory]_vars

\* after 5 M+ C in the expression version: the register holds 5, the
\* display is 0 again
C25_Witness ==
    /\ steps = 3
    /\ state.memory = Whole(5)
    /\ state.displayValue = <<"0">>
    /\ state.currentToken = <<"5">>

====
